---- MODULE Spec2Model ----
(***************************************************************************)
(* Model of the 3D car racing game (src/main.py): the procedural track    *)
(* generator, the bounds tracker, the recentering shift and the save/load *)
(* persistence of CarRacingGame, with the title/pause screens that drive  *)
(* them.                                                                   *)
(*                                                                         *)
(* Coordinates are whole distance units.  An entity is a record of its    *)
(* position; a list of the program is a sequence.  The engine's per-frame *)
(* inputs (the player's displacement, the frame time, the collision       *)
(* events) are chosen with \E from small sets.  Python's random module is *)
(* a deterministic stream: a seed fixes the state, every draw advances it.*)
(***************************************************************************)
EXTENDS Integers, Sequences, FiniteSets, Bags, TLC

VARIABLES
    game_state,        \* self.game_state: "title", "playing", "paused"
    difficulty,        \* self.difficulty
    attrs,             \* names of the attributes the game object has (hasattr)
    ai_speed_factor,   \* self.ai_speed_factor in tenths (7, 9, 12)
    coins,             \* self.coins: coins collected in this level
    level,             \* self.level
    total_coins,       \* self.total_coins
    score,             \* self.score
    auto_save_timer,   \* self.auto_save_timer, seconds
    world_seed,        \* self.world_seed
    min_generated_z,   \* self.min_generated_z
    max_generated_z,   \* self.max_generated_z
    walls,             \* self.walls: list of [x, z]
    obstacles,         \* self.obstacles: list of [x, z]
    coin_entities,     \* self.coin_entities: list of [x, z, enabled]
    ai_cars,           \* self.ai_cars: list of [z, max_speed]
    player,            \* self.player: [x, y, z]
    rng,               \* state of the random module's stream
    scene_coins,       \* bag of positions of the coin entities alive in the engine
    savegame,          \* savegame.json: << >> when absent, else <<record>>
    scores,            \* self.leaderboard.scores
    title_entity,      \* the title screen is shown
    pause_menu,        \* the pause menu is shown
    leaderboard_screen,\* the leaderboard screen is shown
    fault,             \* exception that escaped a handler ("none" when running)
    frames,            \* engine frames elapsed
    shift_log,         \* << >>, or <<the entities right before this frame's shift>>
    save_log,          \* << >>, or <<the world as save_game saw it>>
    loaded,            \* the last step was a load_game that read a record
    gen_log,           \* the last generate_track_segment call
    games,             \* games started from the title screen
    loads,             \* saves loaded from the pause menu
    score_log          \* every entry handed to leaderboard.add_score, in order

vars == <<game_state, difficulty, attrs, ai_speed_factor, coins, level, total_coins,
          score, auto_save_timer, world_seed, min_generated_z, max_generated_z,
          walls, obstacles, coin_entities, ai_cars, player, rng, scene_coins,
          savegame, scores, title_entity, pause_menu, leaderboard_screen, fault,
          frames, shift_log, save_log, loaded, gen_log, games, loads, score_log>>

(***************************************************************************)
(* Bounds of the model and constants of the program.                       *)
(***************************************************************************)
MaxFrames == 2          \* long frames explored
MaxTicks == 3           \* one-second frames explored
MaxLoads == 1           \* saves loaded from the pause menu
MaxGenCalls == 3        \* calls of the generator harness
MaxAdds == 11           \* calls of the leaderboard harness
MaxCoinFrames == 24     \* frames of a coin run
MaxQuits == 1           \* times a coin run is left for the title screen

CarMaxSpeed == 20       \* Car.max_speed
SegmentLength == 50     \* look-ahead and length of a streamed segment
WallStep == 2           \* step between wall pairs
TerrainTrigger == 150   \* |player.z| beyond which update streams terrain
RecenterLimit == 1000   \* |player.z| beyond which the world is recentred
AutoSavePeriod == 60    \* seconds between auto-saves
LeaderboardSize == 10   \* entries the leaderboard keeps

Seeds == {3, 8}
Difficulties == {"medium"}

Abs(n) == IF n < 0 THEN -n ELSE n
Max(a, b) == IF a >= b THEN a ELSE b

(***************************************************************************)
(* random: seed() fixes the stream, each draw advances it.                 *)
(***************************************************************************)
RandomSeed(seed) == seed % 64
RandomNext(r) == (13 * r + 11) % 64
\* random.uniform(a, b) == a + (b - a) * random(), on the draw r / 64
RandomUniform(a, b, r) == a + ((b - a) * r) \div 64
\* random.random() < 0.1 on the draw r / 64
RandomBelowTenth(r) == 10 * r < 64

\* a guard that never finds a wall
WallNeverExists(wzs, z) == FALSE

(***************************************************************************)
(* generate_track_segment                                                  *)
(***************************************************************************)
\* any(abs(wall.z - z) < 0.1 for wall in self.walls), on the z of the walls: on
\* whole units only a wall within one unit of z can be that close
WallExistsAt(wzs, z) == \E wz \in {y \in (z - 1)..(z + 1) : y \in wzs} : 10 * Abs(wz - z) < 1

\* the grid of a loop that stops before end_z
WallGridExclusive(start_z, end_z) ==
    [k \in 1..(IF end_z <= start_z THEN 0 ELSE (end_z - start_z + WallStep - 1) \div WallStep)
        |-> start_z + WallStep * (k - 1)]

\* the z of the wall pairs the loop places: every WallStep from start_z up to and
\* including end_z, except where a wall already stands (a pair placed earlier in
\* the same call is WallStep away, never within 0.1)
WallGrid(start_z, end_z) ==
    [k \in 1..(IF end_z < start_z THEN 0 ELSE (end_z - start_z) \div WallStep + 1) |->
        start_z + WallStep * (k - 1)]

GenerateWalls(ws, start_z, end_z) ==
    LET wzs == {ws[i].z : i \in 1..Len(ws)}
        zs == SelectSeq(WallGrid(start_z, end_z), LAMBDA z : ~WallExistsAt(wzs, z))
    IN  ws \o [i \in 1..(2 * Len(zs)) |->
                  [x |-> IF i % 2 = 1 THEN 15 ELSE -15, z |-> zs[(i + 1) \div 2]]]

NumObstacles(start_z, end_z) == Max(5, (end_z - start_z) \div 10)
NumCoins(start_z, end_z) == Max(10, (end_z - start_z) \div 5)

\* A draw is the affine map RandomNext, r |-> (13 r + 11) % 64; eight draws in a
\* row are the map r |-> (33 r + 8) % 64.
RandomNext8(r) == (33 * r + 8) % 64

\* the stream's states after 0..k draws from state r, counted in runs of eight
\* draws and single draws
Draws(r, k) ==
    LET f[i \in 0..k] == IF i = 0 THEN r
                         ELSE IF i % 8 = 0 THEN RandomNext8(f[i - 8])
                         ELSE RandomNext(f[i - 1])
    IN  f

\* n placements at (uniform(-12, 12), uniform(start_z, end_z)), appended to acc;
\* the result is <<list, stream state>>
Scatter(acc, r, n, start_z, end_z) ==
    LET f == Draws(r, 2 * n)
    IN  <<acc \o [i \in 1..n |-> [x |-> RandomUniform(-12, 12, f[2 * i - 1]),
                                  z |-> RandomUniform(start_z, end_z, f[2 * i])]],
          f[2 * n]>>

\* the walls of side x standing within 0.1 of z
WallsAt(ws, x, z) ==
    Cardinality({i \in 1..Len(ws) : ws[i].x = x /\ 10 * Abs(ws[i].z - z) < 1})

AsCoin(p) == [x |-> p.x, z |-> p.z, enabled |-> TRUE]
CoinPos(c) == [x |-> c.x, z |-> c.z]
SeqBag(s) == [p \in {s[i] : i \in 1..Len(s)} |-> Cardinality({i \in 1..Len(s) : s[i] = p})]

\* g is the record of the game's fields (Game below).  The call is logged in
\* gen_log: its interval, whether a wall stood in the interval before it, and what
\* it created.
GenerateTrackSegment(g, start_z, end_z) ==
    LET \* without self.walls the loop raises at once; the except clause prints it
        ws == IF "walls" \in g.attrs THEN GenerateWalls(g.walls, start_z, end_z)
              ELSE g.walls
        ob == Scatter(g.obstacles, g.rng, NumObstacles(start_z, end_z), start_z, end_z)
        n  == NumCoins(start_z, end_z)
        cn == Scatter(<< >>, ob[2], n, start_z, end_z)
        first == Scatter(<< >>, ob[2], 1, start_z, end_z)
        out == IF "obstacles" \notin g.attrs
               \* the first obstacle entity is created, then self.obstacles raises
               THEN [g EXCEPT !.walls = ws,
                              !.rng = Draws(g.rng, 2)[2],
                              !.fault = "AttributeError"]
               ELSE IF "coin_entities" \in g.attrs
               THEN [g EXCEPT !.walls = ws, !.obstacles = ob[1],
                              !.coin_entities = g.coin_entities \o
                                                [i \in 1..n |-> AsCoin(cn[1][i])],
                              !.total_coins = g.total_coins + n,
                              !.rng = cn[2],
                              !.scene_coins = g.scene_coins (+) SeqBag(cn[1])]
               \* the first coin entity is created, then self.coin_entities raises
               ELSE [g EXCEPT !.walls = ws, !.obstacles = ob[1],
                              !.rng = first[2],
                              !.scene_coins = g.scene_coins (+) SeqBag(first[1]),
                              !.fault = "AttributeError"]
    IN  [out EXCEPT !.gen_log =
            [start_z |-> start_z, end_z |-> end_z,
             walls_before |-> \E i \in 1..Len(g.walls) :
                                 g.walls[i].z >= start_z /\ g.walls[i].z <= end_z,
             walls_added |-> Len(out.walls) - Len(g.walls),
             faults |-> {c \in {"walls", "obstacles", "coin_entities"} :
                            /\ c \notin g.attrs
                            /\ c = "coin_entities" => "obstacles" \in g.attrs},
             left_at_start |-> WallsAt(out.walls, 15, start_z),
             right_at_start |-> WallsAt(out.walls, -15, start_z),
             left_at_end |-> WallsAt(out.walls, 15, end_z),
             right_at_end |-> WallsAt(out.walls, -15, end_z),
             obstacles_added |-> Len(out.obstacles) - Len(g.obstacles),
             coins_added |-> BagCardinality(out.scene_coins) - BagCardinality(g.scene_coins),
             coins_sum |-> g.gen_log.coins_sum
                           + BagCardinality(out.scene_coins) - BagCardinality(g.scene_coins),
             total_before |-> g.total_coins,
             total_after |-> out.total_coins,
             calls |-> g.gen_log.calls + 1]]

NoCall == [start_z |-> 0, end_z |-> 0, walls_before |-> FALSE, walls_added |-> 0,
           faults |-> {},
           left_at_start |-> 0, right_at_start |-> 0, left_at_end |-> 0,
           right_at_end |-> 0, obstacles_added |-> 0, coins_added |-> 0,
           coins_sum |-> 0, total_before |-> 0, total_after |-> 0, calls |-> 0]

\* create_track: fresh wall and obstacle lists, bounds [-50, 50], the first segment
CreateTrack(g) ==
    GenerateTrackSegment(
        [g EXCEPT !.walls = << >>, !.obstacles = << >>,
                  !.min_generated_z = -SegmentLength,
                  !.max_generated_z = SegmentLength,
                  !.attrs = g.attrs \cup {"walls", "obstacles"}],
        -SegmentLength, SegmentLength)

Game ==
    [attrs |-> attrs, difficulty |-> difficulty, coins |-> coins, level |-> level,
     total_coins |-> total_coins, score |-> score, auto_save_timer |-> auto_save_timer,
     world_seed |-> world_seed, min_generated_z |-> min_generated_z,
     max_generated_z |-> max_generated_z, walls |-> walls, obstacles |-> obstacles,
     coin_entities |-> coin_entities, ai_cars |-> ai_cars, player |-> player,
     rng |-> rng, scene_coins |-> scene_coins, savegame |-> savegame,
     save_log |-> save_log, fault |-> "none", gen_log |-> gen_log,
     shift_log |-> << >>, loaded |-> FALSE]

\* the step leaves the game's fields as g has them
Put(g) ==
    /\ attrs' = g.attrs /\ difficulty' = g.difficulty /\ coins' = g.coins
    /\ level' = g.level /\ total_coins' = g.total_coins /\ score' = g.score
    /\ auto_save_timer' = g.auto_save_timer /\ world_seed' = g.world_seed
    /\ min_generated_z' = g.min_generated_z /\ max_generated_z' = g.max_generated_z
    /\ walls' = g.walls /\ obstacles' = g.obstacles
    /\ coin_entities' = g.coin_entities /\ ai_cars' = g.ai_cars /\ player' = g.player
    /\ rng' = g.rng /\ scene_coins' = g.scene_coins /\ savegame' = g.savegame
    /\ save_log' = g.save_log /\ fault' = g.fault /\ gen_log' = g.gen_log
    /\ shift_log' = g.shift_log /\ loaded' = g.loaded

(***************************************************************************)
(* Leaderboard                                                             *)
(***************************************************************************)
RECURSIVE InsertDesc(_, _)
InsertDesc(s, e) ==
    IF s = << >> THEN <<e>>
    ELSE IF Head(s).score >= e.score THEN <<Head(s)>> \o InsertDesc(Tail(s), e)
    ELSE <<e>> \o s

\* a sort that puts the newest of equal scores first
SortDescNewestFirst(s) ==
    [i \in 1..Len(s) |->
        s[CHOOSE k \in 1..Len(s) :
              Cardinality({j \in 1..Len(s) : s[j].score > s[k].score
                               \/ (s[j].score = s[k].score /\ j > k)}) = i - 1]]

\* list.sort(key=score, reverse=True): stable, equal scores keep their order
RECURSIVE SortDesc(_)
SortDesc(s) ==
    IF s = << >> THEN << >>
    ELSE InsertDesc(SortDesc(SubSeq(s, 1, Len(s) - 1)), s[Len(s)])

AddScore(s, name, lv, cn, sc) ==
    LET sorted == SortDesc(Append(s, [name |-> name, level |-> lv, coins |-> cn, score |-> sc]))
    IN  SubSeq(sorted, 1, IF Len(sorted) < LeaderboardSize THEN Len(sorted) ELSE LeaderboardSize)

(***************************************************************************)
(* save_game                                                               *)
(***************************************************************************)
EnabledCoins(ce) == SelectSeq(ce, LAMBDA c : c.enabled)

SaveRecord(seed, mn, mx, p, ce, ai, sc, lv, cn, tc, diff) ==
    [world_seed |-> seed, min_generated_z |-> mn, max_generated_z |-> mx,
     player |-> p,
     coins |-> [i \in 1..Len(EnabledCoins(ce)) |-> CoinPos(EnabledCoins(ce)[i])],
     ai_cars |-> ai,
     game_state |-> [score |-> sc, level |-> lv, coins |-> cn, total_coins |-> tc,
                     difficulty |-> diff]]

SaveGame(g) ==
    [g EXCEPT !.savegame = <<SaveRecord(g.world_seed, g.min_generated_z,
                                        g.max_generated_z, g.player, g.coin_entities,
                                        g.ai_cars, g.score, g.level, g.coins,
                                        g.total_coins, g.difficulty)>>,
              !.save_log = <<[obstacles |-> g.obstacles,
                                coin_entities |-> g.coin_entities]>>]

(***************************************************************************)
(* load_game                                                               *)
(***************************************************************************)
\* destroy(coin) for every coin of the list: the alive ones leave the scene
DestroyCoins(g) ==
    IF "coin_entities" \in g.attrs
    THEN g.scene_coins (-) SeqBag([i \in 1..Len(EnabledCoins(g.coin_entities)) |->
                                      CoinPos(EnabledCoins(g.coin_entities)[i])])
    ELSE g.scene_coins

RestoreCoins(g, rec) ==
    [g EXCEPT !.coin_entities = [i \in 1..Len(rec.coins) |-> AsCoin(rec.coins[i])],
              !.total_coins = Len(rec.coins),
              !.scene_coins = g.scene_coins (+) SeqBag(rec.coins),
              !.attrs = g.attrs \cup {"coin_entities"}]

RestoreProgression(g, rec) ==
    [g EXCEPT !.score = rec.game_state.score,
              !.level = rec.game_state.level,
              !.coins = rec.game_state.coins,
              !.difficulty = rec.game_state.difficulty]

\* a load that clears the coins before it looks for the file
LoadGameClearsFirst(g) ==
    [g EXCEPT !.scene_coins = DestroyCoins(g), !.coin_entities = << >>,
              !.total_coins = 0]

LoadGame(g) ==
    IF g.savegame = << >> THEN g
    ELSE LET rec == g.savegame[1]
             g1 == [g EXCEPT !.scene_coins = DestroyCoins(g),
                             !.world_seed = rec.world_seed,
                             !.rng = RandomSeed(rec.world_seed),
                             !.min_generated_z = rec.min_generated_z,
                             !.max_generated_z = rec.max_generated_z,
                             !.attrs = g.attrs \cup {"world_seed"}]
             g2 == CreateTrack(g1)
             g3 == RestoreCoins(g2, rec)
             \* the cars' textures reseed the stream, the player's last
             g4 == [g3 EXCEPT !.ai_cars = rec.ai_cars,
                              !.player = rec.player,
                              !.rng = RandomSeed(rec.world_seed),
                              !.attrs = g3.attrs \cup {"ai_cars", "player"}]
         IN  IF g2.fault # "none" THEN g2
             ELSE [RestoreProgression(g4, rec) EXCEPT !.loaded = TRUE]

(***************************************************************************)
(* CarRacingGame.__init__                                                  *)
(***************************************************************************)
NoPlayer == [x |-> 0, y |-> 0, z |-> 0]

Init ==
    /\ game_state = "title"
    /\ difficulty = "medium"
    /\ attrs = {}
    /\ ai_speed_factor = 0
    /\ coins = 0
    /\ level = 1
    /\ total_coins = 0
    /\ score = 0
    /\ auto_save_timer = 0
    /\ world_seed = 0
    /\ min_generated_z = 0
    /\ max_generated_z = 0
    /\ walls = << >>
    /\ obstacles = << >>
    /\ coin_entities = << >>
    /\ ai_cars = << >>
    /\ player = NoPlayer
    /\ rng = 0
    /\ scene_coins = EmptyBag
    /\ savegame = << >>
    /\ scores = << >>
    /\ title_entity = TRUE
    /\ pause_menu = FALSE
    /\ leaderboard_screen = FALSE
    /\ fault = "none"
    /\ frames = 0
    /\ shift_log = << >>
    /\ save_log = << >>
    /\ loaded = FALSE
    /\ gen_log = NoCall
    /\ games = 0
    /\ loads = 0
    /\ score_log = << >>

Running == fault = "none"

(***************************************************************************)
(* Title screen                                                            *)
(***************************************************************************)
SpeedFactor(d) == IF d = "easy" THEN 7 ELSE IF d = "medium" THEN 9 ELSE 12

SetDifficulty(d) ==
    /\ Running /\ title_entity
    /\ difficulty' = d
    /\ ai_speed_factor' = SpeedFactor(d)
    /\ attrs' = attrs \cup {"ai_speed_factor"}
    /\ min_generated_z' = -SegmentLength
    /\ max_generated_z' = SegmentLength
    /\ auto_save_timer' = 0
    /\ shift_log' = << >> /\ loaded' = FALSE
    /\ UNCHANGED <<game_state, coins, level, total_coins, score, world_seed, walls,
                   obstacles, coin_entities, ai_cars, player, rng, scene_coins,
                   savegame, scores, title_entity, pause_menu, leaderboard_screen,
                   fault, frames, save_log, gen_log, games, loads, score_log>>

ShowLeaderboard ==
    /\ Running /\ title_entity
    /\ title_entity' = FALSE
    /\ leaderboard_screen' = TRUE
    /\ attrs' = attrs \cup {"leaderboard_screen"}
    /\ shift_log' = << >> /\ loaded' = FALSE
    /\ UNCHANGED <<game_state, difficulty, ai_speed_factor, coins, level, total_coins,
                   score, auto_save_timer, world_seed, min_generated_z,
                   max_generated_z, walls, obstacles, coin_entities, ai_cars, player,
                   rng, scene_coins, savegame, scores, pause_menu, fault, frames,
                   save_log, gen_log, games, loads, score_log>>

\* the button of the leaderboard screen
BackToTitle ==
    /\ Running /\ leaderboard_screen
    /\ leaderboard_screen' = FALSE
    /\ title_entity' = TRUE
    /\ shift_log' = << >> /\ loaded' = FALSE
    /\ UNCHANGED <<game_state, difficulty, attrs, ai_speed_factor, coins, level,
                   total_coins, score, auto_save_timer, world_seed, min_generated_z,
                   max_generated_z, walls, obstacles, coin_entities, ai_cars, player,
                   rng, scene_coins, savegame, scores, pause_menu, fault, frames,
                   save_log, gen_log, games, loads, score_log>>

(***************************************************************************)
(* start_game                                                              *)
(***************************************************************************)
\* spawn_ai_cars: car i is placed with two draws, then its texture reseeds the
\* stream with world_seed + i
SpawnCar(r, factor) ==
    [z |-> RandomUniform(-20, -40, RandomNext(RandomNext(r))),
     max_speed |-> (CarMaxSpeed * factor) \div 10]

SpawnAiCars(g, factor) ==
    [g EXCEPT !.ai_cars = [i \in 1..4 |->
                              SpawnCar(IF i = 1 THEN g.rng
                                       ELSE RandomSeed(g.world_seed + i - 2), factor)],
              !.rng = RandomSeed(g.world_seed + 3)]

NewGame(g, seed) ==
    LET g1 == [g EXCEPT !.world_seed = seed, !.rng = RandomSeed(seed),
                        !.coin_entities = << >>,
                        !.attrs = g.attrs \cup {"world_seed", "coin_entities"}]
        g2 == CreateTrack(g1)
        g3 == [g2 EXCEPT !.ai_cars = << >>, !.attrs = g2.attrs \cup {"ai_cars"}]
    IN  IF "ai_speed_factor" \notin g.attrs
        \* the first car is created, then self.ai_speed_factor raises
        THEN [g3 EXCEPT !.rng = RandomSeed(seed), !.fault = "AttributeError"]
        ELSE [SpawnAiCars(g3, ai_speed_factor) EXCEPT
                  !.player = NoPlayer,
                  !.rng = RandomSeed(seed),
                  !.attrs = g3.attrs \cup {"player"}]

\* load_game, then the dashboard, then "if self.player"
LoadSavedGame(g) ==
    LET g1 == LoadGame(g)
    IN  IF g1.fault = "none" /\ "player" \notin g1.attrs
        THEN [g1 EXCEPT !.fault = "AttributeError"]
        ELSE g1

StartGame(load_save, seed) ==
    /\ Running /\ title_entity
    /\ title_entity' = FALSE
    /\ game_state' = "playing"
    /\ games' = games + 1
    /\ \E g \in {IF load_save THEN LoadSavedGame([Game EXCEPT !.score = 0])
                 ELSE NewGame([Game EXCEPT !.score = 0], seed)} : Put(g)
    /\ UNCHANGED <<ai_speed_factor, scores, pause_menu, leaderboard_screen, frames,
                   loads, score_log>>

(***************************************************************************)
(* Pause menu and the escape key                                           *)
(***************************************************************************)
TogglePause ==
    /\ game_state' = (IF game_state = "playing" THEN "paused" ELSE "playing")
    /\ pause_menu' = (game_state = "playing")
    /\ Put(Game)
    /\ UNCHANGED <<ai_speed_factor, scores, title_entity, leaderboard_screen, frames,
                   games, loads, score_log>>

\* save_game, leaderboard.add_score, back_to_title
SaveAndQuit ==
    /\ Put([SaveGame(Game) EXCEPT
               !.fault = IF "leaderboard_screen" \in attrs THEN "none"
                         ELSE "AttributeError"])
    /\ scores' = AddScore(scores, "Player", level, coins, score)
    /\ score_log' = Append(score_log, [name |-> "Player", level |-> level,
                                       coins |-> coins, score |-> score])
    /\ leaderboard_screen' = FALSE
    /\ title_entity' = (title_entity \/ "leaderboard_screen" \in attrs)
    /\ UNCHANGED <<game_state, ai_speed_factor, pause_menu, frames, games, loads>>

KeyEscape ==
    /\ Running
    /\ \/ game_state = "playing" /\ TogglePause
       \/ game_state = "paused" /\ SaveAndQuit

PauseResume == Running /\ pause_menu /\ TogglePause

PauseSave ==
    /\ Running /\ pause_menu
    /\ \E g \in {SaveGame(Game)} : Put(g)
    /\ UNCHANGED <<game_state, ai_speed_factor, scores, title_entity, pause_menu,
                   leaderboard_screen, frames, games, loads, score_log>>

PauseLoad ==
    /\ Running /\ pause_menu /\ loads < MaxLoads
    /\ loads' = loads + 1
    /\ \E g \in {LoadGame(Game)} : Put(g)
    /\ UNCHANGED <<game_state, ai_speed_factor, scores, title_entity, pause_menu,
                   leaderboard_screen, frames, games, score_log>>

PauseQuit == Running /\ pause_menu /\ SaveAndQuit

(***************************************************************************)
(* The frame: Car.update of every car, then CarRacingGame.update           *)
(***************************************************************************)
\* Car.update of an AI car: drive on below z = 20 (one draw, a second one when
\* the first is below 0.1, for the steering), else wrap to z = -20
RECURSIVE AiUpdate(_, _, _, _)
AiUpdate(cars, i, r, dt) ==
    IF i > Len(cars) THEN <<cars, r>>
    ELSE IF cars[i].z < 20
    THEN LET r1 == RandomNext(r)
         IN  AiUpdate([cars EXCEPT ![i].z = @ + (cars[i].max_speed * 8 * dt) \div 10],
                      i + 1, IF RandomBelowTenth(r1) THEN RandomNext(r1) ELSE r1, dt)
    ELSE AiUpdate([cars EXCEPT ![i].z = -20], i + 1, r, dt)

\* Car.update of the player: position += forward * speed * dt, the displacement d
MoveCars(g, d) ==
    LET ai == AiUpdate(g.ai_cars, 1, g.rng, d.dt)
    IN  [g EXCEPT !.ai_cars = ai[1], !.rng = ai[2],
                  !.player = [x |-> g.player.x + d.dx, y |-> g.player.y,
                              z |-> g.player.z + d.dz]]

\* a level_up that leaves the collected count as it is
LevelUpKeepsCount(g) ==
    [g EXCEPT !.level = g.level + 1,
              !.score = g.score + 1000 * (g.level + 1)]

LevelUp(g) ==
    [g EXCEPT !.level = g.level + 1,
              !.score = g.score + 1000 * (g.level + 1),
              !.coins = 0,
              !.ai_cars = [i \in 1..Len(g.ai_cars) |->
                              [g.ai_cars[i] EXCEPT !.max_speed = (@ * 11) \div 10]]]

FirstEnabled(ce) == CHOOSE i \in 1..Len(ce) : ce[i].enabled /\ \A j \in 1..(i - 1) : ~ce[j].enabled

\* collect_coin of the coin at index k; destroy(coin) takes the entity out of the
\* scene, and a destroyed coin is no longer enabled
CollectCoin(g, k) ==
    LET g1 == [g EXCEPT !.coin_entities[k].enabled = FALSE,
                        !.scene_coins = g.scene_coins (-) SetToBag({CoinPos(g.coin_entities[k])}),
                        !.coins = g.coins + 1,
                        !.score = g.score + 100 * g.level]
    IN  IF g1.coins >= g1.total_coins THEN LevelUp(g1) ELSE g1

ShiftZ(s, offset) == [i \in 1..Len(s) |-> [s[i] EXCEPT !.z = @ - offset]]

\* the recentering of generate_more_terrain
Recenter(g) ==
    LET offset == g.player.z
        alive == EnabledCoins(g.coin_entities)
    IN  [g EXCEPT !.player.z = 0,
                  !.walls = ShiftZ(g.walls, offset),
                  !.obstacles = ShiftZ(g.obstacles, offset),
                  !.coin_entities = ShiftZ(g.coin_entities, offset),
                  !.ai_cars = ShiftZ(g.ai_cars, offset),
                  !.scene_coins = (g.scene_coins
                                   (-) SeqBag([i \in 1..Len(alive) |-> CoinPos(alive[i])]))
                                  (+) SeqBag([i \in 1..Len(alive) |->
                                                 CoinPos(ShiftZ(alive, offset)[i])]),
                  !.shift_log = <<[offset |-> offset, player |-> g.player,
                                   walls |-> g.walls, obstacles |-> g.obstacles,
                                   coin_entities |-> g.coin_entities,
                                   ai_cars |-> g.ai_cars,
                                   scene_coins |-> g.scene_coins]>>]

ExtendForward(g) ==
    IF g.player.z > g.max_generated_z - SegmentLength
    THEN GenerateTrackSegment(
             [g EXCEPT !.max_generated_z = g.max_generated_z + SegmentLength],
             g.max_generated_z, g.max_generated_z + SegmentLength)
    ELSE g

ExtendBackward(g) ==
    IF g.player.z < g.min_generated_z + SegmentLength
    THEN GenerateTrackSegment(
             [g EXCEPT !.min_generated_z = g.min_generated_z - SegmentLength],
             g.min_generated_z - SegmentLength, g.min_generated_z)
    ELSE g

GenerateMoreTerrain(g) ==
    LET g2 == ExtendBackward(ExtendForward(g))
    IN  IF Abs(g2.player.z) > RecenterLimit THEN Recenter(g2) ELSE g2

AutoSave(g, dt) ==
    IF g.auto_save_timer + dt >= AutoSavePeriod
    THEN [SaveGame(g) EXCEPT !.auto_save_timer = 0]
    ELSE [g EXCEPT !.auto_save_timer = g.auto_save_timer + dt]

\* the collision loops of update, on the events evs the engine reports in this
\* frame: a coin hit, a wall or obstacle hit, an AI car hit
HitCoin(g, evs) ==
    IF "coin" \in evs THEN CollectCoin(g, FirstEnabled(g.coin_entities)) ELSE g

HitWall(g, evs, d) ==
    IF "wall" \in evs
    THEN [g EXCEPT !.player.x = @ - 2 * d.dx, !.player.z = @ - 2 * d.dz,
                   !.score = Max(0, g.score - 10)]
    ELSE g

HitCar(g, evs) ==
    IF "car" \in evs THEN [g EXCEPT !.score = Max(0, g.score - 50)] ELSE g

Collide(g, evs, d) == HitCar(HitWall(HitCoin(g, evs), evs, d), evs)

StreamTerrain(g, dt) ==
    IF Abs(g.player.z) > TerrainTrigger
    THEN AutoSave(GenerateMoreTerrain(g), dt)
    ELSE g

Update(g, evs, d) == StreamTerrain(Collide(g, evs, d), d.dt)

\* One frame of play: the player's displacement (dx, dz) and the frame time dt
\* of Car.update, and the collision events evs the engine reports to update.
\* Frames in which the game is not playing change nothing of the game object
\* (update returns at once) and are left out.
Frame(in) ==
    /\ Running /\ game_state = "playing" /\ "player" \in attrs
    /\ "coin" \in in.evs => \E i \in 1..Len(coin_entities) : coin_entities[i].enabled
    /\ frames' = frames + 1
    /\ \E g \in {Update(MoveCars(Game, in), in.evs, in)} : Put(g)
    /\ UNCHANGED <<game_state, ai_speed_factor, scores, title_entity, pause_menu,
                   leaderboard_screen, games, loads, score_log>>

\* long frames: 30 s at a speed below Car.max_speed, and a short one in which
\* the player hits a coin, an obstacle and an AI car
LongFrames ==
    {[dx |-> 2, dz |-> 503, dt |-> 30, evs |-> {}],
     [dx |-> -2, dz |-> -504, dt |-> 30, evs |-> {}],
     [dx |-> 1, dz |-> 5, dt |-> 1, evs |-> {"coin", "wall", "car"}]}

\* frames of one second at Car.max_speed, and one in which the player hits a
\* coin, an obstacle and an AI car
ShortFrames ==
    {[dx |-> 1, dz |-> CarMaxSpeed, dt |-> 1, evs |-> {}],
     [dx |-> -1, dz |-> -CarMaxSpeed, dt |-> 1, evs |-> {}],
     [dx |-> 1, dz |-> 5, dt |-> 1, evs |-> {"coin", "wall", "car"}]}

\* the title screen and the pause menu
Play ==
    \/ \E d \in Difficulties : SetDifficulty(d)
    \/ \E load_save \in BOOLEAN, seed \in Seeds : StartGame(load_save, seed)
    \/ KeyEscape
    \/ PauseResume
    \/ PauseSave
    \/ PauseLoad
    \/ PauseQuit

Next ==
    \/ Play
    \/ \E in \in LongFrames : frames < MaxFrames /\ Frame(in)

\* play in long frames: the track is streamed, recentred and auto-saved
Spec == Init /\ [][Next]_vars

NextDrive ==
    \/ Play
    \/ \E in \in ShortFrames : frames < MaxTicks /\ Frame(in)

\* play in frames of one second, the player at Car.max_speed at most
SpecDrive == Init /\ [][NextDrive]_vars

(***************************************************************************)
(* Harness of generate_track_segment: a game object with empty lists, and   *)
(* direct calls on intervals.                                               *)
(***************************************************************************)
GenIntervals ==
    {<<0, 50>>, <<50, 100>>, <<-50, 50>>, <<0, 10>>, <<-100, -50>>, <<40, 47>>}

InitGen ==
    /\ game_state = "title"
    /\ difficulty = "medium"
    /\ attrs = {"world_seed", "walls", "obstacles", "coin_entities"}
    /\ ai_speed_factor = 0
    /\ coins = 0
    /\ level = 1
    /\ total_coins = 0
    /\ score = 0
    /\ auto_save_timer = 0
    /\ world_seed \in Seeds
    /\ min_generated_z = 0
    /\ max_generated_z = 0
    /\ walls = << >>
    /\ obstacles = << >>
    /\ coin_entities = << >>
    /\ ai_cars = << >>
    /\ player = NoPlayer
    /\ rng = RandomSeed(world_seed)
    /\ scene_coins = EmptyBag
    /\ savegame = << >>
    /\ scores = << >>
    /\ title_entity = TRUE
    /\ pause_menu = FALSE
    /\ leaderboard_screen = FALSE
    /\ fault = "none"
    /\ frames = 0
    /\ shift_log = << >>
    /\ save_log = << >>
    /\ loaded = FALSE
    /\ gen_log = NoCall
    /\ games = 0
    /\ loads = 0
    /\ score_log = << >>

GenCall(iv) ==
    /\ Running /\ gen_log.calls < MaxGenCalls
    /\ \E g \in {GenerateTrackSegment(Game, iv[1], iv[2])} : Put(g)
    /\ UNCHANGED <<game_state, ai_speed_factor, scores, title_entity, pause_menu,
                   leaderboard_screen, frames, games, loads, score_log>>

NextGen == \E iv \in GenIntervals : GenCall(iv)

SpecGen == InitGen /\ [][NextGen]_vars

(***************************************************************************)
(* The same harness on game objects that lack some of the three lists, so   *)
(* that placing that category raises AttributeError.                        *)
(***************************************************************************)
InitFault ==
    /\ game_state = "title" /\ difficulty = "medium"
    /\ attrs \in {{"world_seed"} \cup lists :
                     lists \in SUBSET {"walls", "obstacles", "coin_entities"}}
    /\ ai_speed_factor = 0 /\ coins = 0 /\ level = 1 /\ total_coins = 0 /\ score = 0
    /\ auto_save_timer = 0
    /\ world_seed \in Seeds
    /\ min_generated_z = 0 /\ max_generated_z = 0
    /\ walls = << >> /\ obstacles = << >> /\ coin_entities = << >> /\ ai_cars = << >>
    /\ player = NoPlayer
    /\ rng = RandomSeed(world_seed)
    /\ scene_coins = EmptyBag
    /\ savegame = << >> /\ scores = << >>
    /\ title_entity = TRUE /\ pause_menu = FALSE /\ leaderboard_screen = FALSE
    /\ fault = "none"
    /\ frames = 0 /\ shift_log = << >> /\ save_log = << >> /\ loaded = FALSE
    /\ gen_log = NoCall
    /\ games = 0 /\ loads = 0 /\ score_log = << >>

SpecFault == InitFault /\ [][NextGen]_vars

(***************************************************************************)
(* Harness of Leaderboard.add_score: an empty leaderboard, and direct calls *)
(* with names that number the calls.                                        *)
(***************************************************************************)
\* the scores a call may insert: three in the first four calls (as in the
\* scenario 50, 300, 10, 300), two in the later ones
BoardScores(n) == IF n <= 4 THEN {10, 50, 300} ELSE {50, 300}

AddScoreCall(sc) ==
    /\ Len(score_log) < MaxAdds
    /\ scores' = AddScore(scores, Len(score_log) + 1, 1, 0, sc)
    /\ score_log' = Append(score_log, [name |-> Len(score_log) + 1, level |-> 1,
                                       coins |-> 0, score |-> sc])
    /\ UNCHANGED <<game_state, difficulty, attrs, ai_speed_factor, coins, level,
                   total_coins, score, auto_save_timer, world_seed, min_generated_z,
                   max_generated_z, walls, obstacles, coin_entities, ai_cars, player,
                   rng, scene_coins, savegame, title_entity, pause_menu,
                   leaderboard_screen, fault, frames, shift_log, save_log, loaded,
                   gen_log, games, loads>>

NextBoard == \E sc \in BoardScores(Len(score_log) + 1) : AddScoreCall(sc)

SpecBoard == Init /\ [][NextBoard]_vars

(***************************************************************************)
(* A freshly started process that finds the save file of an earlier run:    *)
(* the title screen, and the start with the load option.                    *)
(***************************************************************************)
\* the game object as __init__ leaves it
FreshGame ==
    [attrs |-> {}, difficulty |-> "medium", coins |-> 0, level |-> 1,
     total_coins |-> 0, score |-> 0, auto_save_timer |-> 0, world_seed |-> 0,
     min_generated_z |-> 0, max_generated_z |-> 0, walls |-> << >>,
     obstacles |-> << >>, coin_entities |-> << >>, ai_cars |-> << >>,
     player |-> NoPlayer, rng |-> 0, scene_coins |-> EmptyBag, savegame |-> << >>,
     save_log |-> << >>, fault |-> "none", gen_log |-> NoCall,
     shift_log |-> << >>, loaded |-> FALSE]

AllDifficulties == {"easy", "medium", "hard"}
PreviousSeeds == {3, 8, 21}

\* the save file of an earlier run: a new game of difficulty d on the seed,
\* saved at once or after the first coin was collected
PreviousRun(seed, d, collected) ==
    LET g1 == CreateTrack([FreshGame EXCEPT
                               !.difficulty = d, !.world_seed = seed,
                               !.rng = RandomSeed(seed),
                               !.attrs = {"ai_speed_factor", "world_seed",
                                          "coin_entities"}])
        g2 == [SpawnAiCars(g1, SpeedFactor(d)) EXCEPT
                   !.rng = RandomSeed(seed),
                   !.attrs = g1.attrs \cup {"ai_cars", "player"}]
    IN  SaveGame(IF collected THEN CollectCoin(g2, 1) ELSE g2).savegame

InitFresh ==
    /\ game_state = "title" /\ difficulty = "medium"
    /\ attrs = {}
    /\ ai_speed_factor = 0 /\ coins = 0 /\ level = 1 /\ total_coins = 0 /\ score = 0
    /\ auto_save_timer = 0 /\ world_seed = 0
    /\ min_generated_z = 0 /\ max_generated_z = 0
    /\ walls = << >> /\ obstacles = << >> /\ coin_entities = << >> /\ ai_cars = << >>
    /\ player = NoPlayer /\ rng = 0
    /\ scene_coins = EmptyBag
    /\ savegame \in {PreviousRun(seed, d, collected) :
                        seed \in PreviousSeeds, d \in AllDifficulties,
                        collected \in BOOLEAN}
    /\ scores = << >>
    /\ title_entity = TRUE /\ pause_menu = FALSE /\ leaderboard_screen = FALSE
    /\ fault = "none"
    /\ frames = 0 /\ shift_log = << >> /\ save_log = << >> /\ loaded = FALSE
    /\ gen_log = NoCall
    /\ games = 0 /\ loads = 0 /\ score_log = << >>

NextFresh ==
    \/ \E d \in AllDifficulties : SetDifficulty(d)
    \/ \E seed \in Seeds : StartGame(TRUE, seed)

SpecFresh == InitFresh /\ [][NextFresh]_vars

(***************************************************************************)
(* Coin runs: new games only, no save is loaded; the player collects one    *)
(* coin per frame or drives on past the streaming threshold.                *)
(***************************************************************************)
CollectFrame == [dx |-> 0, dz |-> 0, dt |-> 1, evs |-> {"coin"}]
DriveOnFrame == [dx |-> 0, dz |-> TerrainTrigger + 10, dt |-> 1, evs |-> {}]

\* the frames in which the player may drive on instead of collecting, and the
\* frame counts at which the escape key may be pressed; a game left for the
\* title screen is not resumed from its pause menu
DriveOnAt == {2, 22}
EscapeAt == {5, 20}

CoinFrames(n) == IF n \in DriveOnAt THEN {CollectFrame, DriveOnFrame} ELSE {CollectFrame}

NextCoins ==
    \/ \E d \in Difficulties : SetDifficulty(d)
    \/ ShowLeaderboard
    \/ BackToTitle
    \/ StartGame(FALSE, 3)
    \/ frames \in EscapeAt /\ (game_state = "playing" \/ Len(score_log) < MaxQuits) /\ KeyEscape
    \/ ~title_entity /\ ~leaderboard_screen /\ PauseResume
    \/ Len(score_log) < MaxQuits /\ PauseQuit
    \/ \E in \in CoinFrames(frames + 1) : frames < MaxCoinFrames /\ Frame(in)

SpecCoins == Init /\ [][NextCoins]_vars

(***************************************************************************)
(* Properties.  Saved is the record of the save file; after a load the      *)
(* flag loaded holds and the game is compared with it.                      *)
(***************************************************************************)
Saved == savegame[1]

SideWalls(x) == {i \in 1..Len(walls) : walls[i].x = x}

\* a pair of walls stands at every step of the interval [mn, mx]
WallsCover(mn, mx) ==
    \A k \in 0..((mx - mn) \div WallStep) :
        /\ WallsAt(walls, 15, mn + WallStep * k) >= 1
        /\ WallsAt(walls, -15, mn + WallStep * k) >= 1

\* C1: after load_game the bounds min_generated_z and max_generated_z are the
\* ones the save file records, and the walls cover the whole recorded interval.
BoundsRoundTrip ==
    loaded => /\ min_generated_z = Saved.min_generated_z
              /\ max_generated_z = Saved.max_generated_z
              /\ WallsCover(Saved.min_generated_z, Saved.max_generated_z)

\* a load of a world whose bounds had grown beyond the first segment
GrownWorldLoaded ==
    loaded /\ Saved.max_generated_z - Saved.min_generated_z > 2 * SegmentLength

\* C2: after load_game the coins alive in the world are exactly the coins the
\* save file records (the uncollected ones of the saved world): the coins of
\* the list are those, and no other coin is alive in the scene.
CoinsRoundTrip ==
    /\ savegame # << >> =>
           SeqBag(Saved.coins)
               = SeqBag([i \in 1..Len(EnabledCoins(save_log[1].coin_entities)) |->
                            CoinPos(EnabledCoins(save_log[1].coin_entities)[i])])
    /\ loaded => /\ coin_entities = [i \in 1..Len(Saved.coins) |-> AsCoin(Saved.coins[i])]
                 /\ \A p \in DOMAIN scene_coins \cup DOMAIN SeqBag(Saved.coins) :
                        CopiesIn(p, scene_coins) = CopiesIn(p, SeqBag(Saved.coins))

\* the listed coins after a load are the recorded ones, with other coins alive
OrphanCoinsAfterLoad ==
    /\ loaded
    /\ coin_entities = [i \in 1..Len(Saved.coins) |-> AsCoin(Saved.coins[i])]
    /\ BagCardinality(scene_coins) > Len(Saved.coins)

\* C3: after load_game score, level, coins and total_coins have the values the
\* saved world had, also when coins had been collected before the save.
ProgressionRoundTrip ==
    loaded => /\ score = Saved.game_state.score
              /\ level = Saved.game_state.level
              /\ coins = Saved.game_state.coins
              /\ total_coins = Saved.game_state.total_coins

\* a load of a world saved after a coin was collected
CollectedThenLoaded ==
    loaded /\ Saved.game_state.coins > 0 /\ Len(Saved.coins) < Saved.game_state.total_coins

\* C4: at the end of every frame of play, the player moving at most
\* Car.max_speed per frame, min_generated_z <= player.z <= max_generated_z.
PlayerWithinBounds ==
    (Running /\ game_state = "playing" /\ frames > 0)
        => (min_generated_z <= player.z /\ player.z <= max_generated_z)

\* the player at the first segment's end, below the streaming threshold
PlayerBeyondFirstSegment ==
    /\ Running /\ game_state = "playing"
    /\ player.z > SegmentLength /\ player.z <= TerrainTrigger

BoundsMonotone ==
    [][frames' = frames + 1 =>
          IF shift_log' = << >>
          THEN min_generated_z' <= min_generated_z /\ max_generated_z' >= max_generated_z
          ELSE /\ min_generated_z' \in {b - shift_log'[1].offset :
                                           b \in {min_generated_z,
                                                  min_generated_z - SegmentLength}}
               /\ max_generated_z' \in {b - shift_log'[1].offset :
                                           b \in {max_generated_z,
                                                  max_generated_z + SegmentLength}}]_vars

\* a frame has recentred the world
Recentred == shift_log # << >> /\ Abs(shift_log[1].offset) > RecenterLimit

\* the z of the entities of a list, each less the player's z
RelativeZ(s, p) == [i \in 1..Len(s) |-> s[i].z - p.z]

\* the recentering has shifted the entities of the four lists, each once
ListsShifted ==
    shift_log # << >> =>
        LET before == shift_log[1]
        IN  /\ RelativeZ(walls, player) = RelativeZ(before.walls, before.player)
            /\ RelativeZ(obstacles, player) = RelativeZ(before.obstacles, before.player)
            /\ RelativeZ(coin_entities, player)
                   = RelativeZ(before.coin_entities, before.player)
            /\ RelativeZ(ai_cars, player) = RelativeZ(before.ai_cars, before.player)

\* C7: no frame ends with |player.z| > 1000; the recentering sets player.z to
\* 0 and leaves the player's x and y, and every wall, obstacle, coin and AI car
\* keeps its z relative to the player: those of the game's lists, and every
\* coin alive in the scene, are shifted by the offset, once.
RecenterInvariance ==
    /\ Running => Abs(player.z) <= RecenterLimit
    /\ shift_log # << >> =>
          LET before == shift_log[1]
          IN  /\ Abs(before.offset) > RecenterLimit
              /\ player.z = 0
              /\ player.x = before.player.x
              /\ player.y = before.player.y
              /\ ListsShifted
              /\ \A p \in DOMAIN before.scene_coins :
                     CopiesIn([p EXCEPT !.z = @ - before.offset], scene_coins)
                         >= CopiesIn(p, before.scene_coins)

\* a recentering of a world with walls, obstacles, AI cars and coins, some of
\* the coins alive in the scene being outside coin_entities
RecentredWithOrphans ==
    /\ Recentred
    /\ Len(walls) > 0 /\ Len(obstacles) > 0 /\ Len(ai_cars) > 0
    /\ BagCardinality(shift_log[1].scene_coins)
           > Len(EnabledCoins(shift_log[1].coin_entities))

\* the last call found no wall in its interval
FreshCall == Running /\ gen_log.calls > 0 /\ ~gen_log.walls_before

\* C8 as stated: a call on an interval holding no wall creates
\* (end_z - start_z) / 2 pairs of walls, two walls each (25 pairs for (0, 50)).
FreshSegmentPairsExclusive ==
    FreshCall => gen_log.walls_added = gen_log.end_z - gen_log.start_z

\* C8: a call on an interval holding no wall creates one pair of walls at
\* every step from start_z up to and including end_z:
\* floor((end_z - start_z) / 2) + 1 pairs (26 pairs for (0, 50)).
FreshSegmentPairsInclusive ==
    FreshCall =>
        gen_log.walls_added = 2 * ((gen_log.end_z - gen_log.start_z) \div WallStep + 1)

\* a call on (0, 50) that found no wall and created 26 pairs
FreshZeroToFifty ==
    /\ FreshCall /\ gen_log.start_z = 0 /\ gen_log.end_z = SegmentLength
    /\ gen_log.walls_added = 52

\* C9: every generate_track_segment call creates max(10, floor(length / 5))
\* coins and adds that number to total_coins, and total_coins is the sum of the
\* coins of all the calls made.
CoinTotalAccounting ==
    (Running /\ gen_log.calls > 0) =>
        /\ gen_log.coins_added = NumCoins(gen_log.start_z, gen_log.end_z)
        /\ gen_log.total_after = gen_log.total_before + gen_log.coins_added
        /\ total_coins = gen_log.coins_sum

\* a load, its create_track having generated coins
LoadRegenerated ==
    loaded /\ gen_log.calls > 1 /\ gen_log.total_after > total_coins

\* C10: after load_game the obstacles are those of the saved world.
ObstaclesRoundTrip ==
    loaded => {obstacles[i] : i \in 1..Len(obstacles)}
                  = {save_log[1].obstacles[i] : i \in 1..Len(save_log[1].obstacles)}

\* a load of a world that had obstacles beyond the first segment
FarObstaclesLoaded ==
    /\ loaded
    /\ Len(save_log[1].obstacles) > Len(obstacles)

\* the entries of score_log that rank above its entry k: a higher score, or the
\* same score and inserted earlier
RankedAbove(k) ==
    {j \in 1..Len(score_log) :
        \/ score_log[j].score > score_log[k].score
        \/ score_log[j].score = score_log[k].score /\ j < k}

\* C11: after any sequence of add_score calls from an empty leaderboard the
\* list is sorted by score descending, equal scores stand in insertion order,
\* it holds at most 10 entries, and it holds exactly the inserted entries with
\* fewer than 10 entries ranked above them, each at its rank.
LeaderboardRanked ==
    /\ Len(scores) <= LeaderboardSize
    /\ \A i \in 1..Len(scores) : \A j \in (i + 1)..Len(scores) :
           /\ scores[i].score >= scores[j].score
           /\ scores[i].score = scores[j].score => scores[i].name < scores[j].name
    /\ \A k \in 1..Len(score_log) :
           IF Cardinality(RankedAbove(k)) < LeaderboardSize
           THEN /\ Cardinality(RankedAbove(k)) < Len(scores)
                /\ scores[Cardinality(RankedAbove(k)) + 1] = score_log[k]
           ELSE \A i \in 1..Len(scores) : scores[i] # score_log[k]

\* eleven entries inserted, equal scores among the kept ones, one entry dropped
\* for a later one that ranks above it
BoardOverflowed ==
    /\ Len(score_log) > LeaderboardSize
    /\ Len(scores) = LeaderboardSize
    /\ \E i \in 1..(Len(scores) - 1) : scores[i].score = scores[i + 1].score
    /\ \E k \in 1..LeaderboardSize : \A i \in 1..Len(scores) : scores[i] # score_log[k]

\* C12: in a generate_track_segment call a fault raised while placing one
\* category does not escape the call, and the categories after the faulting one
\* are generated in full: after a wall fault the obstacles and the coins, after
\* an obstacle fault the coins.
FaultIsolation ==
    (gen_log.calls > 0 /\ gen_log.faults # {}) =>
        /\ fault = "none"
        /\ "obstacles" \notin gen_log.faults =>
               gen_log.obstacles_added = NumObstacles(gen_log.start_z, gen_log.end_z)
        /\ "coin_entities" \notin gen_log.faults =>
               gen_log.coins_added = NumCoins(gen_log.start_z, gen_log.end_z)

\* a wall fault alone is recovered: the obstacles and coins of the segment exist
WallFaultIsolated ==
    (gen_log.calls > 0 /\ gen_log.faults = {"walls"}) =>
        /\ fault = "none"
        /\ gen_log.walls_added = 0
        /\ gen_log.obstacles_added = NumObstacles(gen_log.start_z, gen_log.end_z)
        /\ gen_log.coins_added = NumCoins(gen_log.start_z, gen_log.end_z)

\* a call in which placing the obstacles raised
ObstacleFaultEscaped ==
    /\ gen_log.calls > 0 /\ "obstacles" \in gen_log.faults
    /\ fault = "AttributeError"

\* C13: a load_game with no save file raises nothing and leaves the world
\* seed, the bounds, the four lists, the coins of the scene, the player and the
\* progression counters as they were.
LoadWithoutSaveIsNoOp ==
    [][(loads' = loads + 1 /\ savegame = << >>) =>
          /\ fault' = "none" /\ ~loaded'
          /\ savegame' = << >>
          /\ attrs' = attrs
          /\ world_seed' = world_seed
          /\ min_generated_z' = min_generated_z /\ max_generated_z' = max_generated_z
          /\ walls' = walls /\ obstacles' = obstacles
          /\ coin_entities' = coin_entities /\ ai_cars' = ai_cars
          /\ scene_coins' = scene_coins
          /\ player' = player
          /\ score' = score /\ level' = level /\ coins' = coins
          /\ total_coins' = total_coins /\ difficulty' = difficulty]_vars

\* a load was asked from the pause menu of a running game with no save file
LoadedWithoutSave ==
    /\ loads > 0 /\ savegame = << >> /\ Running
    /\ game_state = "paused" /\ Len(walls) > 0 /\ Len(coin_entities) > 0

\* what a game in play needs: the player, the world seed and the four lists
WorldAttrs == {"player", "world_seed", "walls", "obstacles", "coin_entities", "ai_cars"}

\* C14: a game started with the load option and no save file falls back to a
\* new world: whenever game_state is "playing" the player, the world seed and
\* the four lists exist.  (The difficulty is chosen, so a start without the
\* load option builds its world; what is left is the start with the option.)
PlayingHasWorld ==
    (game_state = "playing" /\ "ai_speed_factor" \in attrs) => WorldAttrs \subseteq attrs

\* started with the load option and no save file: playing, and no world
PlayingWithoutWorld ==
    /\ game_state = "playing" /\ games = 1 /\ savegame = << >>
    /\ "ai_speed_factor" \in attrs
    /\ WorldAttrs \cap attrs = {}
    /\ fault = "AttributeError"

\* C15: load_game of a well-formed save file in a fresh process (no game
\* started, no lists, no player) completes without a fault, with the player, the
\* saved AI cars and the saved coins created and the progression restored.
FreshLoadCompletes ==
    games > 0 =>
        /\ fault = "none" /\ loaded
        /\ {"player", "ai_cars", "coin_entities"} \subseteq attrs
        /\ player = Saved.player
        /\ ai_cars = Saved.ai_cars
        /\ coin_entities = [i \in 1..Len(Saved.coins) |-> AsCoin(Saved.coins[i])]
        /\ score = Saved.game_state.score /\ level = Saved.game_state.level
        /\ coins = Saved.game_state.coins

\* the load of the fresh process has stopped in create_track: walls and
\* obstacles listed, one coin entity created, no list of coins and no player
FreshLoadFaulted ==
    /\ games = 1 /\ savegame # << >> /\ fault = "AttributeError"
    /\ world_seed = Saved.world_seed
    /\ Len(walls) > 0 /\ Len(obstacles) > 0
    /\ BagCardinality(scene_coins) = 1
    /\ {"player", "ai_cars", "coin_entities"} \cap attrs = {}

\* C16: in a run in which no save is loaded and each coin is collected at most
\* once, level never exceeds 2, and once the level is 2 the collected count is
\* strictly below total_coins, however many segments are generated, coins
\* collected or new games started afterwards.
AtMostOneLevelUp ==
    /\ level <= 2
    /\ level = 2 => coins < total_coins

\* after the level-up the game was left, a second game started, the track
\* streamed and a coin collected
PlayedOnAfterLevelUp ==
    /\ Running /\ level = 2 /\ games = 2
    /\ coins > 0 /\ total_coins > 40
    /\ gen_log.calls >= 3

====
